---- MODULE Spec2Model ----
(***************************************************************************)
(* The time-sheet calculator (TimeSheetClient): week-keyed persistence in  *)
(* localStorage, hour aggregation, JSON export/import and clear-all,       *)
(* together with the React commit cycle that runs its effects.             *)
(*                                                                         *)
(* Representation.                                                         *)
(*  - A JavaScript string is a sequence of one-character strings.          *)
(*  - A JavaScript number n is Num(k) with k = 60 * n, so that             *)
(*    (endMinutes - startMinutes) / 60 is held exactly; NaN and null are   *)
(*    values of their own.  An undefined field is a field that is not in   *)
(*    the DOMAIN of the object.                                            *)
(*  - An instant is a whole number of hours since a Monday 00:00 UTC; the  *)
(*    browser's time zone is tz hours east of UTC.                         *)
(***************************************************************************)
EXTENDS Integers, Sequences, FiniteSets, TLC

\* ------------------------------------------------------------ bounds
\* Weeks 0..MaxWeek can be picked in the date picker.
MaxWeek == 1
\* Day cards 0..MaxDayIndex are edited by the user.
MaxDayIndex == 0
\* addTimeEntry is used while a day has fewer entries than this.
MaxEntries == 2
\* User operations per run.
MaxOps == 3
\* The clock is advanced at most this many times.
MaxTicks == 1

\* ------------------------------------------------------------ JS values
Num(k) == [t |-> "number", v |-> k]
NaN == [t |-> "NaN", v |-> 0]
Null == [t |-> "null", v |-> 0]
IsNumber(x) == x.t = "number"

Has(obj, f) == f \in DOMAIN obj
\* obj.f ?? dflt : dflt when the field is undefined or null.
Nullish(obj, f) == ~Has(obj, f) \/ obj[f] = Null
Coalesce(obj, f, dflt) == IF Nullish(obj, f) THEN dflt ELSE obj[f]

Digits == <<"0", "1", "2", "3", "4", "5", "6", "7", "8", "9">>
IsDigit(c) == \E i \in 1..10 : Digits[i] = c
DigitVal(c) == (CHOOSE i \in 1..10 : Digits[i] = c) - 1

\* The longest prefix of s made of digits.
RECURSIVE DigitPrefix(_)
DigitPrefix(s) ==
  IF s = <<>> \/ ~IsDigit(Head(s)) THEN <<>>
  ELSE <<Head(s)>> \o DigitPrefix(Tail(s))

RECURSIVE DecimalValue(_)
DecimalValue(ds) ==
  IF ds = <<>> THEN 0
  ELSE 10 * DecimalValue(SubSeq(ds, 1, Len(ds) - 1)) + DigitVal(ds[Len(ds)])

RECURSIVE Pow10(_)
Pow10(n) == IF n = 0 THEN 1 ELSE 10 * Pow10(n - 1)

Signed(s) == s # <<>> /\ Head(s) \in {"-", "+"}
Unsigned(s) == IF Signed(s) THEN Tail(s) ELSE s
SignOf(s) == IF s # <<>> /\ Head(s) = "-" THEN -1 ELSE 1

\* parseInt(s, 10): an optional sign, then the leading digits; NaN without any.
\* The result is the integer itself (not scaled).
ParseInt(s) ==
  LET ds == DigitPrefix(Unsigned(s))
  IN  IF ds = <<>> THEN NaN ELSE Num(SignOf(s) * DecimalValue(ds))

\* parseFloat(s): an optional sign, digits, an optional fraction; NaN without
\* a digit.  The result is scaled by 60.
ParseFloat(s) ==
  LET u  == Unsigned(s)
      ip == DigitPrefix(u)
      r  == SubSeq(u, Len(ip) + 1, Len(u))
      fr == IF r # <<>> /\ Head(r) = "." THEN DigitPrefix(Tail(r)) ELSE <<>>
  IN  IF ip = <<>> /\ fr = <<>> THEN NaN
      ELSE Num(SignOf(s) *
               (60 * DecimalValue(ip) + (60 * DecimalValue(fr)) \div Pow10(Len(fr))))

\* parseFloat(x) of a value that is not a string: String(x) is parsed, which
\* gives x back for a number and NaN for NaN, null and undefined.
ParseFloatOfField(obj, f) ==
  IF Has(obj, f) /\ IsNumber(obj[f]) THEN obj[f] ELSE NaN

\* s.split(":")
RECURSIVE Split(_)
Split(s) ==
  IF \A i \in 1..Len(s) : s[i] # ":" THEN <<s>>
  ELSE LET i == CHOOSE j \in 1..Len(s) :
                  s[j] = ":" /\ \A k \in 1..(j - 1) : s[k] # ":"
       IN  <<SubSeq(s, 1, i - 1)>> \o Split(SubSeq(s, i + 1, Len(s)))

RECURSIVE NatDigits(_)
NatDigits(n) ==
  IF n < 10 THEN <<Digits[n + 1]>>
  ELSE NatDigits(n \div 10) \o <<Digits[(n % 10) + 1]>>

\* Number.prototype.toString of k/60, for the values with at most two
\* decimals.
NumToString(k) ==
  LET a  == IF k < 0 THEN -k ELSE k
      ip == a \div 60
      fr == a % 60
      fd == IF fr = 0 THEN <<>>
            ELSE IF (fr * 10) % 60 = 0 THEN <<".">> \o NatDigits((fr * 10) \div 60)
            ELSE <<".">> \o (IF (fr * 100) \div 60 < 10 THEN <<"0">> ELSE <<>>)
                         \o NatDigits((fr * 100) \div 60)
  IN  (IF k < 0 THEN <<"-">> ELSE <<>>) \o NatDigits(ip) \o fd

\* ------------------------------------------------------------ dates
DateOf(i) == [t |-> "Date", v |-> i]
InvalidDate == [t |-> "Invalid Date", v |-> 0]
IsValidDate(d) == d.t = "Date"
\* The string Date.prototype.toISOString gives for instant i.
IsoString(i) == [t |-> "isostring", v |-> i]
\* A string that Date cannot parse.
NotADate == [t |-> "string", v |-> 0]
\* 1970-01-01T00:00Z, the instant of new Date(null): the instants count from
\* the Monday before it.
EpochInstant == 72
HoursPerDay == 24

\* new Date(obj.f)
NewDate(obj, f) ==
  IF ~Has(obj, f) THEN InvalidDate
  ELSE IF obj[f] = Null THEN DateOf(EpochInstant)
  ELSE IF obj[f].t = "isostring" THEN DateOf(obj[f].v)
  ELSE InvalidDate

\* Date.prototype.toJSON
DateToJSON(d) == IF IsValidDate(d) THEN IsoString(d.v) ELSE Null

\* The calendar day (days since the first Monday) of instant i in UTC, which
\* is what toISOString().split("T")[0] names.
UTCDay(i) == i \div HoursPerDay
\* The calendar day of instant i in the browser's time zone.
LocalDay(i, zone) == (i + zone) \div HoursPerDay
\* new Date(year, month - 1, day): local midnight of a calendar day.
LocalMidnight(day, zone) == day * HoursPerDay - zone
\* Date.prototype.getDay in the browser's time zone: Sunday is 0.
GetDay(i, zone) == (LocalDay(i, zone) + 1) % 7

getMonday(i, zone) ==
  LET dayOfWeek == GetDay(i, zone)
      diff == LocalDay(i, zone) - dayOfWeek + (IF dayOfWeek = 0 THEN -6 ELSE 1)
  IN  LocalMidnight(diff, zone)

TIMESHEET_PREFIX == "timesheet-data-"
WAGE_KEY == [name |-> "timesheet-hourly-wage"]
\* getLocalStorageKey of a valid date (toISOString throws on an invalid one).
getLocalStorageKey(monday) == [prefix |-> TIMESHEET_PREFIX, date |-> UTCDay(monday.v)]
StartsWithPrefix(key) == Has(key, "prefix") /\ key.prefix = TIMESHEET_PREFIX

\* ------------------------------------------------------------ week data
NumDays == 7
EmptyString == <<>>
BlankEntry == [startTime |-> EmptyString, endTime |-> EmptyString, hours |-> Num(0)]
\* The entry the load effect gives a day without entries.
LoadDefaultEntry == [startTime |-> EmptyString, endTime |-> EmptyString]

NewWeek(monday) ==
  [i \in 1..NumDays |->
     [date |-> DateOf(monday.v + (i - 1) * HoursPerDay),
      entries |-> <<BlankEntry>>,
      totalHours |-> Num(0),
      useDirectHours |-> FALSE]]

\* The contribution of one entry in time-range mode, in units of 1/60 hour.
TimeRangeHours(entry) ==
  IF entry.startTime = EmptyString \/ entry.endTime = EmptyString THEN 0
  ELSE
    LET startParts == Split(entry.startTime)
        endParts == Split(entry.endTime)
    IN  IF Len(startParts) # 2 \/ Len(endParts) # 2 THEN 0
        ELSE
          LET startHour == ParseInt(startParts[1])
              startMin == ParseInt(startParts[2])
              endHour == ParseInt(endParts[1])
              endMin == ParseInt(endParts[2])
          IN  IF startHour = NaN \/ startMin = NaN \/ endHour = NaN \/ endMin = NaN
              THEN 0
              ELSE
                LET startMinutes == startHour.v * 60 + startMin.v
                    endMinutes == endHour.v * 60 + endMin.v
                IN  IF endMinutes < startMinutes THEN 0
                    ELSE endMinutes - startMinutes

\* The contribution of one entry in direct-hours mode.
DirectHours(entry) ==
  LET hours == Coalesce(entry, "hours", Num(0))
  IN  IF hours = NaN THEN 0 ELSE hours.v

RECURSIVE SumHours(_, _)
SumHours(entries, useDirectHours) ==
  IF entries = <<>> THEN 0
  ELSE SumHours(SubSeq(entries, 1, Len(entries) - 1), useDirectHours)
       + (IF useDirectHours THEN DirectHours(entries[Len(entries)])
          ELSE TimeRangeHours(entries[Len(entries)]))

calculateDayHours(entries, useDirectHours) == Num(SumHours(entries, useDirectHours))

\* The truthiness of day.useDirectHours.
UseDirect(day) == Has(day, "useDirectHours") /\ day.useDirectHours

\* ------------------------------------------------------------ JSON
Arr(seq) == [t |-> "array", v |-> seq]
IsArray(x) == x.t = "array"
Str(chars) == [t |-> "string", v |-> chars]

\* JSON.stringify of a number field: NaN is written as null.
NumberToJSON(x) == IF IsNumber(x) THEN x ELSE Null

EntryToJSON(entry) ==
  [f \in DOMAIN entry |->
     IF f = "hours" THEN NumberToJSON(entry[f]) ELSE entry[f]]

DayToJSON(day) ==
  [f \in DOMAIN day |->
     CASE f = "date" -> DateToJSON(day[f])
       [] f = "entries" -> [i \in 1..Len(day[f]) |-> EntryToJSON(day[f][i])]
       [] f = "totalHours" -> NumberToJSON(day[f])
       [] OTHER -> day[f]]

\* JSON.stringify(weekData)
Stringify(wd) == Arr([i \in 1..Len(wd) |-> DayToJSON(wd[i])])

\* The load effect's sanitising of one stored day.  (parseFloat never gives
\* null or undefined, so the ?? 0 after it never applies.)
LoadTotal(day) ==
  LET p == ParseFloatOfField(day, "totalHours")
  IN  IF p = Null THEN Num(0) ELSE p

LoadDay(day) ==
  [f \in DOMAIN day \cup {"date", "entries", "totalHours", "useDirectHours"} |->
     CASE f = "date" -> NewDate(day, "date")
       [] f = "entries" -> IF Has(day, "entries") THEN day.entries
                           ELSE <<LoadDefaultEntry>>
       [] f = "totalHours" -> LoadTotal(day)
       [] f = "useDirectHours" -> IF Has(day, "useDirectHours")
                                  THEN day.useDirectHours ELSE FALSE
       [] OTHER -> day[f]]

\* JSON.parse(storedData).map(...) of a stored array.
LoadWeek(days) == [i \in 1..Len(days) |-> LoadDay(days[i])]

\* handleFileSelect's mapping of one imported entry and day.
ImportEntry(entry) ==
  [startTime |-> IF Has(entry, "startTime") THEN entry.startTime ELSE EmptyString,
   endTime |-> IF Has(entry, "endTime") THEN entry.endTime ELSE EmptyString,
   hours |-> Coalesce(entry, "hours", Num(0))]

ImportDay(day) ==
  [f \in DOMAIN day \cup {"date"} |->
     CASE f = "date" -> NewDate(day, "date")
       [] f = "entries" -> [i \in 1..Len(day.entries) |-> ImportEntry(day.entries[i])]
       [] OTHER -> day[f]]

ImportWeek(days) == [i \in 1..Len(days) |-> ImportDay(days[i])]

\* The document downloadJSON writes.
ExportDoc(monday, wd) ==
  [syntax |-> "ok", selectedMonday |-> DateToJSON(monday), weekData |-> Stringify(wd)]

\* ------------------------------------------------------------ inputs
\* The time zones of the browser, in hours east of UTC.
TimeZones == {0, 2}
\* new Date() when the page is first opened: a Wednesday noon (UTC), and how
\* far AdvanceClock moves it.
NowStart == 9 * HoursPerDay + 12
ClockStep == 4 * HoursPerDay

\* The calendar days the date picker is given: the Monday and the Sunday of
\* the weeks 1 .. MaxWeek + 1.
DateInputs == {7 * (w + 1) + o : w \in 0..MaxWeek, o \in {0, 6}}

\* What <input type="time"> and <input type="number"> report.
T0900 == <<"0", "9", ":", "0", "0">>
T1700 == <<"1", "7", ":", "0", "0">>
TimeInputs == {EmptyString, T0900, T1700}
HoursInputs == {EmptyString, <<"2">>, <<"-", "3">>}
WageInputs == {EmptyString, <<"1", "5">>, <<"-", "2">>}

Without(obj, f) == [g \in DOMAIN obj \ {f} |-> obj[g]]
With(obj, f, val) == [g \in DOMAIN obj \cup {f} |-> IF g = f THEN val ELSE obj[g]]
\* seq with its first element replaced by fn of it.
OnFirst(seq, first) == [i \in 1..Len(seq) |-> IF i = 1 THEN first ELSE seq[i]]

\* An exported document of the blank week of Monday m, and hand-edited copies.
BlankDays(m) == Stringify(NewWeek(m)).v
DocOf(m, days) == [syntax |-> "ok", selectedMonday |-> DateToJSON(m), weekData |-> Arr(days)]
T9x00 == <<"9", "x", ":", "0", "0">>

HandMadeDocs(m) ==
  LET days == BlankDays(m)
      d1 == days[1]
  IN  << \* a week with Monday worked 09:00 to 17:00
         DocOf(m, OnFirst(days, With(With(d1,
                 "entries", <<[startTime |-> T0900, endTime |-> T1700, hours |-> Num(0)]>>),
                 "totalHours", Num(480)))),
         \* not JSON
         [syntax |-> "error"],
         \* no selectedMonday
         Without(DocOf(m, days), "selectedMonday"),
         \* weekData is not an array
         With(DocOf(m, days), "weekData", Null),
         \* a day without an entries array
         DocOf(m, OnFirst(days, Without(d1, "entries"))),
         \* selectedMonday is not a date
         With(DocOf(m, days), "selectedMonday", NotADate),
         \* a total that is not the sum of the day's entries
         DocOf(m, OnFirst(days, With(d1, "totalHours", Num(300)))),
         \* one day only
         DocOf(m, <<d1>>),
         \* a day without totalHours
         DocOf(m, OnFirst(days, Without(d1, "totalHours"))),
         \* a day without useDirectHours
         DocOf(m, OnFirst(days, Without(d1, "useDirectHours"))),
         \* a start time whose hour has a numeric prefix only
         DocOf(m, OnFirst(days, With(d1, "entries",
                 <<[startTime |-> T9x00, endTime |-> T1700, hours |-> Num(0)]>>))),
         \* selectedMonday is the Wednesday of the week
         With(DocOf(m, days), "selectedMonday", IsoString(m.v + 2 * HoursPerDay)) >>

\* ------------------------------------------------------------ state
VARIABLES
  now,             \* new Date(): the present instant
  tz,              \* the browser's time zone, hours east of UTC
  selectedMonday,  \* useState: Date
  weekData,        \* useState: DayEntry[]
  hourlyWage,      \* useState: number
  store,           \* localStorage: key -> stored string
  render,          \* the state the last committed render closed over
  dirty,           \* the states set (to a new identity) since that render
  effects,         \* the effects of that commit still to run, in order
  crashed,         \* a render threw: the component is gone until a reload
  ops,             \* user operations so far
  lastOp,          \* the last user operation
  alerted,         \* that operation ended in alert(...)
  file,            \* the document last downloaded (<<>>: none)
  roundTrip,       \* <<the document last imported>> when it was the export of
                   \* the state it replaced
  saved,           \* key -> the weekData the save effect last wrote under it
  expected,        \* <<the week last saved for the week handleDateChange chose>>
  prevMonday,      \* selectedMonday before the last user operation
  lastArgs         \* <<the arguments of the last user operation>> (<<>>: none kept)

vars == <<now, tz, selectedMonday, weekData, hourlyWage, store, render, dirty,
          effects, crashed, ops, lastOp, alerted, file, roundTrip, saved, expected,
          prevMonday, lastArgs>>

env == <<now, tz>>
react == <<render, dirty, effects, crashed>>
ghost == <<alerted, file, roundTrip, expected, prevMonday, lastArgs>>

\* The save effect declared before the load effect.
AllEffectsSaveFirst == <<"wageLoad", "save", "load", "wageSave">>

\* The effects in the order the component declares them.
AllEffects == <<"wageLoad", "load", "save", "wageSave">>

\* The save effect depending on selectedMonday alone.
EffectsForSaveOnMondayOnly(d) ==
  SelectSeq(<<"wageLoad", "load", "save", "wageSave">>,
    LAMBDA e : \/ e = "load" /\ "selectedMonday" \in d
               \/ e = "save" /\ "selectedMonday" \in d
               \/ e = "wageSave" /\ "hourlyWage" \in d)

\* The effects whose dependency arrays hold a state of the set d.
EffectsFor(d) ==
  SelectSeq(AllEffects,
    LAMBDA e : \/ e = "load" /\ "selectedMonday" \in d
               \/ e = "save" /\ d \cap {"weekData", "selectedMonday"} # {}
               \/ e = "wageSave" /\ "hourlyWage" \in d)

\* What the component's first render leaves: useState's initial values, all
\* four effects to run.
Mounted(instant, zone) ==
  /\ selectedMonday' = DateOf(getMonday(instant, zone))
  /\ weekData' = <<>>
  /\ hourlyWage' = Num(0)
  /\ render' = [selectedMonday |-> DateOf(getMonday(instant, zone)),
                weekData |-> <<>>, hourlyWage |-> Num(0)]
  /\ dirty' = {}
  /\ effects' = AllEffects
  /\ crashed' = FALSE

Init ==
  /\ now = NowStart
  /\ tz \in TimeZones
  /\ selectedMonday = DateOf(getMonday(now, tz))
  /\ weekData = <<>>
  /\ hourlyWage = Num(0)
  /\ store = << >>
  /\ render = [selectedMonday |-> selectedMonday, weekData |-> <<>>, hourlyWage |-> Num(0)]
  /\ dirty = {}
  /\ effects = AllEffects
  /\ crashed = FALSE
  /\ ops = 0
  /\ lastOp = "mount"
  /\ alerted = FALSE
  /\ file = <<>>
  /\ roundTrip = <<>>
  /\ saved = << >>
  /\ expected = <<>>
  /\ prevMonday = selectedMonday
  /\ lastArgs = <<>>

Settled == ~crashed /\ effects = <<>> /\ dirty = {}

\* store with key set to value, and with the keys of a set removed.
SetItem(st, key, value) ==
  [k \in DOMAIN st \cup {key} |-> IF k = key THEN value ELSE st[k]]
RemoveItems(st, keys) == [k \in DOMAIN st \ keys |-> st[k]]

\* ------------------------------------------------------------ React
\* The render reads selectedMonday.toISOString(), every day.date.toISOString()
\* and every day.totalHours.toFixed(2): each throws on the value it cannot take.
RenderThrows(monday, wd) ==
  \/ ~IsValidDate(monday)
  \/ \E i \in 1..Len(wd) :
        \/ ~IsValidDate(wd[i].date)
        \/ ~Has(wd[i], "totalHours")
        \/ wd[i].totalHours = Null

\* React renders the states set since the last commit, and queues the effects
\* whose dependencies changed.
Render ==
  /\ ~crashed /\ effects = <<>> /\ dirty # {}
  /\ IF RenderThrows(selectedMonday, weekData)
     THEN /\ crashed' = TRUE
          /\ effects' = <<>>
          /\ UNCHANGED render
     ELSE /\ crashed' = FALSE
          /\ effects' = EffectsFor(dirty)
          /\ render' = [selectedMonday |-> selectedMonday, weekData |-> weekData,
                        hourlyWage |-> hourlyWage]
  /\ dirty' = {}
  /\ UNCHANGED <<env, selectedMonday, weekData, hourlyWage, store, ops, lastOp,
                 ghost, saved>>

NextEffect(e) == ~crashed /\ effects # <<>> /\ Head(effects) = e

\* useEffect(..., []): the wage is read from localStorage on mount.
WageLoadEffect ==
  /\ NextEffect("wageLoad")
  /\ effects' = Tail(effects)
  /\ IF WAGE_KEY \in DOMAIN store /\ store[WAGE_KEY].v # EmptyString
     THEN LET wage == ParseFloat(store[WAGE_KEY].v)
          IN  /\ hourlyWage' = wage
              /\ dirty' = IF wage = render.hourlyWage THEN dirty
                          ELSE dirty \cup {"hourlyWage"}
     ELSE UNCHANGED <<hourlyWage, dirty>>
  /\ UNCHANGED <<env, selectedMonday, weekData, store, render, crashed, ops, lastOp,
                 ghost, saved>>

\* What the load effect sets weekData to.
LoadedWeek(st, monday) ==
  LET key == getLocalStorageKey(monday)
  IN  IF key \in DOMAIN st /\ IsArray(st[key])
      THEN LoadWeek(st[key].v)
      ELSE NewWeek(monday)

\* useEffect(..., [selectedMonday]): load the selected week or start a new one.
LoadEffect ==
  /\ NextEffect("load")
  /\ effects' = Tail(effects)
  /\ weekData' = LoadedWeek(store, render.selectedMonday)
  /\ dirty' = dirty \cup {"weekData"}
  /\ UNCHANGED <<env, selectedMonday, hourlyWage, store, render, crashed, ops, lastOp,
                 ghost, saved>>

\* useEffect(..., [weekData, selectedMonday]): save the rendered week.
SaveEffect ==
  /\ NextEffect("save")
  /\ effects' = Tail(effects)
  /\ IF Len(render.weekData) > 0
     THEN LET key == getLocalStorageKey(render.selectedMonday)
          IN  /\ store' = SetItem(store, key, Stringify(render.weekData))
              /\ saved' = SetItem(saved, key, render.weekData)
     ELSE UNCHANGED <<store, saved>>
  /\ UNCHANGED <<env, selectedMonday, weekData, hourlyWage, render, dirty, crashed,
                 ops, lastOp, ghost>>

\* useEffect(..., [hourlyWage]): save the rendered wage.
WageSaveEffect ==
  /\ NextEffect("wageSave")
  /\ effects' = Tail(effects)
  /\ store' = SetItem(store, WAGE_KEY,
                 Str(IF IsNumber(render.hourlyWage)
                     THEN NumToString(render.hourlyWage.v) ELSE <<"N", "a", "N">>))
  /\ UNCHANGED <<env, selectedMonday, weekData, hourlyWage, render, dirty, crashed,
                 ops, lastOp, ghost, saved>>

\* ------------------------------------------------------------ user operations
\* A user operation begins: the page is idle and rendered.
UserOp(name) ==
  /\ Settled
  /\ ops < MaxOps
  /\ ops' = ops + 1
  /\ lastOp' = name
  /\ prevMonday' = selectedMonday

\* prevWeekData.map(...) replacing the day of index dayIndex.
MapDay(wd, dayIndex, day) ==
  [i \in 1..Len(wd) |-> IF i = dayIndex + 1 THEN day ELSE wd[i]]

\* The day cards the user edits.
DayIndexes == {i \in 0..MaxDayIndex : i < Len(weekData)}

SetWeekData(wd) ==
  /\ weekData' = wd
  /\ dirty' = {"weekData"}
  /\ alerted' = FALSE
  /\ expected' = <<>>
  /\ UNCHANGED <<env, selectedMonday, hourlyWage, store, render, effects, crashed,
                 file, roundTrip, saved>>

\* parseFloat(value) || 0
HoursOf(value) ==
  LET p == ParseFloat(value)
  IN  IF p = NaN \/ p = Num(0) THEN Num(0) ELSE p

TimeChanged(day, entryIndex, field, value) ==
  LET updatedEntries ==
        [e \in 1..Len(day.entries) |->
           IF e = entryIndex + 1
           THEN IF field = "hours"
                THEN With(day.entries[e], "hours", HoursOf(value))
                ELSE With(day.entries[e], field, value)
           ELSE day.entries[e]]
  IN  With(With(day, "entries", updatedEntries),
           "totalHours", calculateDayHours(updatedEntries, UseDirect(day)))

\* The card of a day shows the hours input in direct-hours mode and the two
\* time inputs otherwise.
handleTimeChange ==
  /\ UserOp("handleTimeChange")
  /\ lastArgs' = <<>>
  /\ \E dayIndex \in DayIndexes :
       LET day == weekData[dayIndex + 1]
       IN  \E entryIndex \in 0..(Len(day.entries) - 1) :
             \E field \in IF UseDirect(day) THEN {"hours"} ELSE {"startTime", "endTime"} :
               \E value \in IF field = "hours" THEN HoursInputs ELSE TimeInputs :
                 SetWeekData(MapDay(weekData, dayIndex,
                                    TimeChanged(day, entryIndex, field, value)))

ModeToggled(day) ==
  LET newUseDirectHours == ~UseDirect(day)
  IN  With(With(day, "useDirectHours", newUseDirectHours),
           "totalHours", calculateDayHours(day.entries, newUseDirectHours))

toggleInputMode ==
  /\ UserOp("toggleInputMode")
  /\ \E dayIndex \in DayIndexes :
       /\ lastArgs' = <<[dayIndex |-> dayIndex, day |-> weekData[dayIndex + 1]]>>
       /\ SetWeekData(MapDay(weekData, dayIndex, ModeToggled(weekData[dayIndex + 1])))

EntryAdded(day) == With(day, "entries", Append(day.entries, BlankEntry))

addTimeEntry ==
  /\ UserOp("addTimeEntry")
  /\ lastArgs' = <<>>
  /\ \E dayIndex \in DayIndexes :
       /\ Len(weekData[dayIndex + 1].entries) < MaxEntries
       /\ SetWeekData(MapDay(weekData, dayIndex, EntryAdded(weekData[dayIndex + 1])))

EntryDeleted(day, entryIndex) ==
  LET updatedEntries ==
        [e \in 1..(Len(day.entries) - 1) |->
           IF e < entryIndex + 1 THEN day.entries[e] ELSE day.entries[e + 1]]
  IN  With(With(day, "entries", updatedEntries),
           "totalHours", calculateDayHours(updatedEntries, UseDirect(day)))

\* The delete button is shown for the entries after the first.
deleteTimeEntry ==
  /\ UserOp("deleteTimeEntry")
  /\ lastArgs' = <<>>
  /\ \E dayIndex \in DayIndexes :
       \E entryIndex \in 1..(Len(weekData[dayIndex + 1].entries) - 1) :
         SetWeekData(MapDay(weekData, dayIndex,
                            EntryDeleted(weekData[dayIndex + 1], entryIndex)))

\* The date picker gives a calendar day, or a value the format test rejects.
handleDateChange ==
  /\ UserOp("handleDateChange")
  /\ alerted' = FALSE
  /\ \/ \E day \in DateInputs :
          LET newSelectedDate == LocalMidnight(day, tz)
              newMonday == DateOf(getMonday(newSelectedDate, tz))
              key == getLocalStorageKey(newMonday)
          IN  /\ selectedMonday' = newMonday
              /\ dirty' = {"selectedMonday"}
              /\ expected' = IF key \in DOMAIN saved THEN <<saved[key]>> ELSE <<>>
              /\ lastArgs' = <<[day |-> day]>>
     \/ /\ expected' = <<>>
        /\ lastArgs' = <<>>
        /\ UNCHANGED <<selectedMonday, dirty>>
  /\ UNCHANGED <<env, weekData, hourlyWage, store, render, effects, crashed,
                 file, roundTrip, saved>>

\* downloadJSON: the document goes to the user's disk.
downloadJSON ==
  /\ Settled
  /\ file' = <<ExportDoc(selectedMonday, weekData)>>
  /\ UNCHANGED <<env, selectedMonday, weekData, hourlyWage, store, react, ops, lastOp,
                 alerted, roundTrip, saved, expected, prevMonday, lastArgs>>

\* The documents the user can pick: the one last downloaded, and hand-edited
\* exports of this week.
Documents == file \o HandMadeDocs(DateOf(getMonday(NowStart, tz)))

\* handleFileSelect throws before it sets any state.
ImportRejected(doc) ==
  \/ doc.syntax = "error"
  \/ ~Has(doc, "selectedMonday")
  \/ doc.selectedMonday = Null
  \/ ~Has(doc, "weekData")
  \/ ~IsArray(doc.weekData)
  \/ \E i \in 1..Len(doc.weekData.v) : ~Has(doc.weekData.v[i], "entries")

\* importJSON (the confirmation), handleFileSelect and the reader's onload.
importJSON ==
  /\ expected' = <<>>
  /\ lastArgs' = <<>>
  /\ \/ \* the confirmation is declined
        /\ UserOp("importJSON")
        /\ alerted' = FALSE
        /\ UNCHANGED <<selectedMonday, weekData, dirty, store, saved, roundTrip>>
     \/ /\ UserOp("handleFileSelect")
        /\ \E n \in 1..Len(Documents) :
             LET doc == Documents[n]
                 importedMonday == NewDate(doc, "selectedMonday")
                 importedWeekData == ImportWeek(doc.weekData.v)
             IN  /\ roundTrip' = IF doc = ExportDoc(selectedMonday, weekData)
                                 THEN <<doc>> ELSE <<>>
                 /\ IF ImportRejected(doc)
                    THEN /\ alerted' = TRUE
                         /\ UNCHANGED <<selectedMonday, weekData, dirty, store, saved>>
                    ELSE /\ selectedMonday' = importedMonday
                         /\ weekData' = importedWeekData
                         /\ dirty' = {"selectedMonday", "weekData"}
                         /\ IF IsValidDate(importedMonday)
                            THEN LET key == getLocalStorageKey(importedMonday)
                                 IN  /\ store' = SetItem(store, key,
                                                         Stringify(importedWeekData))
                                     /\ saved' = RemoveItems(saved, {key})
                                     /\ alerted' = FALSE
                            ELSE \* getLocalStorageKey throws: toISOString of an
                                 \* invalid date, after the states were set
                                 /\ alerted' = TRUE
                                 /\ UNCHANGED <<store, saved>>
  /\ UNCHANGED <<env, hourlyWage, render, effects, crashed, file>>

WeekKeys(st) == {k \in DOMAIN st : StartsWithPrefix(k)}

\* handleClearAll (the confirmation) and clearAll.
handleClearAll ==
  /\ alerted' = FALSE
  /\ expected' = <<>>
  /\ lastArgs' = <<>>
  /\ \/ \* the confirmation is declined
        /\ UserOp("handleClearAll")
        /\ UNCHANGED <<selectedMonday, weekData, hourlyWage, dirty, store, saved>>
     \/ /\ UserOp("clearAll")
        /\ LET newMonday == DateOf(getMonday(now, tz))
           IN  /\ store' = RemoveItems(store, WeekKeys(store) \cup {WAGE_KEY})
               /\ hourlyWage' = Num(0)
               /\ selectedMonday' = newMonday
               /\ weekData' = NewWeek(newMonday)
               /\ dirty' = {"selectedMonday", "weekData"}
                           \cup (IF hourlyWage = Num(0) THEN {} ELSE {"hourlyWage"})
               /\ saved' = << >>
  /\ UNCHANGED <<env, render, effects, crashed, file, roundTrip>>

handleWageChange ==
  /\ UserOp("handleWageChange")
  /\ alerted' = FALSE
  /\ expected' = <<>>
  /\ \E value \in WageInputs :
       LET wage == IF value = EmptyString THEN Num(0) ELSE ParseFloat(value)
       IN  /\ lastArgs' = <<[value |-> value]>>
           /\ IF wage # NaN /\ wage.v >= 0
              THEN /\ hourlyWage' = wage
                   /\ dirty' = IF wage = hourlyWage THEN {} ELSE {"hourlyWage"}
              ELSE UNCHANGED <<hourlyWage, dirty>>
  /\ UNCHANGED <<env, selectedMonday, weekData, store, render, effects, crashed,
                 file, roundTrip, saved>>

\* The page is opened again (after a crash, or at any idle moment): the
\* component mounts afresh over the same localStorage.
Mount ==
  /\ crashed \/ Settled
  /\ ops < MaxOps
  /\ ops' = ops + 1
  /\ lastOp' = "mount"
  /\ prevMonday' = selectedMonday
  /\ alerted' = FALSE
  /\ expected' = <<>>
  /\ lastArgs' = <<>>
  /\ Mounted(now, tz)
  /\ UNCHANGED <<env, store, file, roundTrip, saved>>

\* Time passes while the page is idle.
AdvanceClock ==
  /\ Settled
  /\ now + ClockStep <= NowStart + MaxTicks * ClockStep
  /\ now' = now + ClockStep
  /\ UNCHANGED <<tz, selectedMonday, weekData, hourlyWage, store, react, ops, lastOp,
                 ghost, saved>>

Next ==
  \/ Render
  \/ WageLoadEffect
  \/ LoadEffect
  \/ SaveEffect
  \/ WageSaveEffect
  \/ handleTimeChange
  \/ toggleInputMode
  \/ addTimeEntry
  \/ deleteTimeEntry
  \/ handleDateChange
  \/ downloadJSON
  \/ importJSON
  \/ handleClearAll
  \/ handleWageChange
  \/ Mount
  \/ AdvanceClock

Spec == Init /\ [][Next]_vars

\* ------------------------------------------------------------ claims
CurrentKey == getLocalStorageKey(selectedMonday)
\* The step on which the effects of the last operation have all run.
Settles == ~Settled /\ Settled'

\* C1: once the effects of the last operation have run, the value stored
\* under getLocalStorageKey(selectedMonday) is the serialization of the
\* in-memory weekData, whenever weekData is not empty.
C1_PersistedOnEveryMutation ==
  (Settled /\ weekData # <<>>) =>
     /\ CurrentKey \in DOMAIN store
     /\ store[CurrentKey] = Stringify(weekData)

\* An edited start time has been saved.
C1_Witness ==
  /\ Settled
  /\ lastOp = "handleTimeChange"
  /\ weekData[1].entries[1].startTime = T0900
  /\ store[CurrentKey] = Stringify(weekData)

\* C2: when handleDateChange selects a date of a week that was saved, the
\* week in memory once the effects have run is, day for day, the week that
\* was last saved for it (dates, entries, mode flags and totals).
C2_ReloadOfStoredWeek ==
  (Settled /\ lastOp = "handleDateChange" /\ expected # <<>>) =>
     weekData = expected[1]

\* Coming from another week, the saved week whose Monday has the entry
\* 09:00-17:00 has been reloaded with total 8.
C2_Witness ==
  /\ Settled
  /\ lastOp = "handleDateChange"
  /\ expected # <<>>
  /\ prevMonday # selectedMonday
  /\ weekData = expected[1]
  /\ weekData[1].entries[1].startTime = T0900
  /\ weekData[1].entries[1].endTime = T1700
  /\ weekData[1].totalHours = Num(480)

\* C3: once the effects of a confirmed clear-all have run, the store holds no
\* key with the week prefix and no wage key, the wage is 0, and the week in
\* memory is the empty week of the present week's Monday.
C3_ClearAllLeavesNothing ==
  [][(lastOp = "clearAll" /\ Settles) =>
       /\ WeekKeys(store') = {}
       /\ WAGE_KEY \notin DOMAIN store'
       /\ hourlyWage' = Num(0)
       /\ selectedMonday' = DateOf(getMonday(now', tz'))
       /\ weekData' = NewWeek(selectedMonday')]_vars

\* C4: an import that ends in the alert leaves selectedMonday, weekData and
\* the store as they were.
C4_FailedImportPreservesState ==
  [][(ops' = ops + 1 /\ lastOp' = "handleFileSelect" /\ alerted') =>
       /\ selectedMonday' = selectedMonday
       /\ weekData' = weekData
       /\ store' = store]_vars

\* C5: after the initial load the week in memory has exactly seven days.
C5_SevenDays == Settled => Len(weekData) = NumDays

\* C6: every day's totalHours is calculateDayHours of its entries and mode.
C6_TotalIsDerived ==
  Settled =>
    \A i \in 1..Len(weekData) :
      weekData[i].totalHours
        = calculateDayHours(weekData[i].entries, UseDirect(weekData[i]))

\* A part of a time string that is a number: digits only, at least one.
IsNumericPart(part) == part # <<>> /\ \A i \in 1..Len(part) : IsDigit(part[i])
\* A well-formed time: exactly two colon-separated numeric parts.
WellFormedTime(s) ==
  LET parts == Split(s)
  IN  Len(parts) = 2 /\ IsNumericPart(parts[1]) /\ IsNumericPart(parts[2])
MinutesOf(s) ==
  LET parts == Split(s)
  IN  DecimalValue(parts[1]) * 60 + DecimalValue(parts[2])
\* The contribution the time-range rule gives an entry.
RuleTimeRangeHours(entry) ==
  IF /\ WellFormedTime(entry.startTime)
     /\ WellFormedTime(entry.endTime)
     /\ MinutesOf(entry.startTime) <= MinutesOf(entry.endTime)
  THEN MinutesOf(entry.endTime) - MinutesOf(entry.startTime)
  ELSE 0
RECURSIVE RuleTimeRangeSum(_)
RuleTimeRangeSum(entries) ==
  IF entries = <<>> THEN 0
  ELSE RuleTimeRangeHours(Head(entries)) + RuleTimeRangeSum(Tail(entries))

\* C7: in time-range mode calculateDayHours is the sum over the entries of
\* (end - start)/60 for two well-formed times with start <= end, and of 0 for
\* a missing or malformed time or end < start: that is the total a handler
\* gives the day it recomputes.
C7_TimeRangeAggregation ==
  [][(ops' = ops + 1
      /\ lastOp' \in {"handleTimeChange", "toggleInputMode", "deleteTimeEntry"}) =>
       \A i \in 1..Len(weekData') :
         (weekData'[i] # weekData[i] /\ ~UseDirect(weekData'[i])) =>
            weekData'[i].totalHours = Num(RuleTimeRangeSum(weekData'[i].entries))]_vars

\* C8: every day's totalHours, and so the weekly total, is a number >= 0.
C8_NonNegativeTotals ==
  Settled =>
    \A i \in 1..Len(weekData) :
      /\ calculateDayHours(weekData[i].entries, TRUE).v >= 0
      /\ calculateDayHours(weekData[i].entries, FALSE).v >= 0
      /\ IsNumber(weekData[i].totalHours)
      /\ weekData[i].totalHours.v >= 0

\* C9: importing the document downloadJSON gives for the present state
\* yields, once the effects have run, a state that exports to the same
\* document (the same Monday instant, and day for day the same date, entries,
\* mode flag and total), stored under the key of that Monday.
C9_ExportImportRoundTrip ==
  (lastOp = "handleFileSelect" /\ roundTrip # <<>>) =>
     /\ ~crashed
     /\ ~alerted
     /\ Settled =>
          /\ ExportDoc(selectedMonday, weekData) = roundTrip[1]
          /\ CurrentKey \in DOMAIN store
          /\ store[CurrentKey] = Stringify(weekData)

\* The day the load rule gives for a stored day.
RuleLoadDay(day) ==
  With(With(With(With(day,
    "date", NewDate(day, "date")),
    "entries", IF Has(day, "entries") THEN day.entries ELSE <<LoadDefaultEntry>>),
    "totalHours", IF Has(day, "totalHours") /\ IsNumber(day.totalHours)
                  THEN day.totalHours ELSE Num(0)),
    "useDirectHours", IF Has(day, "useDirectHours") THEN day.useDirectHours ELSE FALSE)

\* C10: the load effect gives each day of a stored array one blank entry if
\* it has no entries, total 0 if its totalHours is missing or not a number,
\* and time-range mode if it has no mode flag; without a stored array it
\* gives the default empty week.
C10_LoadSanitization ==
  [][(NextEffect("load") /\ effects' = Tail(effects)) =>
       LET key == getLocalStorageKey(render.selectedMonday)
       IN  IF key \in DOMAIN store /\ IsArray(store[key])
           THEN weekData' = [i \in 1..Len(store[key].v) |-> RuleLoadDay(store[key].v[i])]
           ELSE weekData' = NewWeek(render.selectedMonday)]_vars

\* C11: a toggleInputMode keeps the day's entries and sets its total to the
\* aggregation under the new mode; a second toggleInputMode of the same day,
\* with no edit between the two, leaves the entries, the total and the mode as
\* they were before the first.
C11_ToggleRoundTrip ==
  [][(ops' = ops + 1 /\ lastOp' = "toggleInputMode") =>
       LET i == lastArgs'[1].dayIndex + 1
           before == weekData[i]
           after == weekData'[i]
       IN  /\ after.entries = before.entries
           /\ UseDirect(after) = ~UseDirect(before)
           /\ after.totalHours = calculateDayHours(before.entries, UseDirect(after))
           /\ (lastOp = "toggleInputMode" /\ lastArgs[1].dayIndex = lastArgs'[1].dayIndex) =>
                LET first == lastArgs[1].day
                IN  /\ after.entries = first.entries
                    /\ after.totalHours = first.totalHours
                    /\ UseDirect(after) = UseDirect(first)]_vars

\* The input's value is a number that is not negative.
ValidWage(value) == IsNumber(ParseFloat(value)) /\ ParseFloat(value).v >= 0

\* C12: handleWageChange with a value that is not a number or is negative
\* leaves the wage and the stored wage as they were; with a valid value the
\* wage becomes that value and, once the effects have run, the store holds it
\* under WAGE_KEY; the wage is a number >= 0 in every state, and no step of a
\* change of week changes it.
C12_WageInput ==
  [][/\ lastOp' = "handleWageChange" =>
          LET value == lastArgs'[1].value
          IN  IF ValidWage(value)
              THEN /\ ops' = ops + 1 => hourlyWage' = ParseFloat(value)
                   /\ Settled' => /\ WAGE_KEY \in DOMAIN store'
                                  /\ store'[WAGE_KEY] = Str(NumToString(hourlyWage'.v))
              ELSE hourlyWage' = hourlyWage /\ store' = store
     /\ IsNumber(hourlyWage') /\ hourlyWage'.v >= 0
     /\ lastOp' = "handleDateChange" => hourlyWage' = hourlyWage]_vars

\* C13: no step of an edit of the week or of a change of week changes the
\* stored record of a week other than the selected one, and at no point of a
\* change from week A to a stored week B does the store hold under B's key
\* what it holds under A's.
C13_WeekIsolation ==
  [][/\ lastOp' \in {"handleTimeChange", "toggleInputMode", "addTimeEntry",
                     "deleteTimeEntry", "handleDateChange"} =>
          \A k \in WeekKeys(store) :
             k # getLocalStorageKey(selectedMonday') =>
                k \in DOMAIN store' /\ store'[k] = store[k]
     /\ (lastOp' = "handleDateChange" /\ expected' # <<>>
         /\ prevMonday' # selectedMonday') =>
          LET keyA == getLocalStorageKey(prevMonday')
              keyB == getLocalStorageKey(selectedMonday')
          IN  (keyA \in DOMAIN store' /\ keyB \in DOMAIN store') =>
                 store'[keyB] # store'[keyA]]_vars

\* C14: in every state selectedMonday is a date that getMonday leaves as it
\* is, after a date selection it is the Monday of the week holding the date
\* selected, and its storage key is the week prefix followed by the calendar
\* date of that Monday.
C14_MondayAnchoring ==
  /\ IsValidDate(selectedMonday)
  /\ getMonday(selectedMonday.v, tz) = selectedMonday.v
  /\ (lastOp = "handleDateChange" /\ lastArgs # <<>>) =>
        LET day == lastArgs[1].day
            monday == LocalDay(selectedMonday.v, tz)
        IN  monday <= day /\ day < monday + NumDays
  /\ getLocalStorageKey(selectedMonday) =
        [prefix |-> TIMESHEET_PREFIX, date |-> LocalDay(selectedMonday.v, tz)]

====
